---- MODULE Spec2Model ----
(***************************************************************************)
(* Model of the hierarchy builder of langchain-samples-hierarchy           *)
(* (src/src/hierarchy_builder.py): HierarchyBuilder.build_hierarchy and    *)
(* HierarchyBuilder._calculate_stats over a batch of repository dicts.     *)
(*                                                                         *)
(* A repository dict is a record whose field "keys" is the set of keys the *)
(* dict has and whose field "nulls" is the set of keys whose value is      *)
(* None; the other fields hold the values of the keys that are present and *)
(* not None.  Group members are references to the dicts of                 *)
(* self.repositories: a member is the index of the dict in that list.      *)
(*                                                                         *)
(* SpecPage models the classifiers of the generated page's script          *)
(* (src/src/site_generator.py): classifyRepoByProduct and                  *)
(* classifyDifficulty, over strings as sequences of characters.            *)
(* SpecFilter models the script's filter state and its event handlers,     *)
(* SpecFiltered a call of getFilteredRepos in any filter state.            *)
(* SpecMain models a run of the build script (src/build.py) around         *)
(* build_hierarchy, SpecFetch the paging loop of fetch_org_repos           *)
(* (src/src/github_fetcher.py).                                            *)
(***************************************************************************)
EXTENDS Integers, Sequences, FiniteSets, TLC

VARIABLES repositories, pc, i, topics, languages, topic_connections, first, second

\* the generated page's script (src/src/site_generator.py): the record given
\* to the classifiers and what classifyRepoByProduct and classifyDifficulty
\* returned for it ("unset" before the call)
VARIABLES subject, product, difficulty

pageVars == <<subject, product, difficulty>>

\* the page's filter state (src/src/site_generator.py): the embedded list
\* hierarchyData.all_repositories, the four script variables, the items of
\* the rendered sidebar and the list last rendered from getFilteredRepos()
VARIABLES hierarchyData, currentView, selectedTopics, selectedProduct, searchQuery,
          sidebar, shown

filterVars == <<hierarchyData, currentView, selectedTopics, selectedProduct,
                searchQuery, sidebar, shown>>

\* a run of the build script (src/build.py): where main is, the --skip-fetch
\* flag, whether repos.json exists, what this run wrote to hierarchy.json
\* and whether it generated the site
VARIABLES main_pc, skip_fetch, repos_json, hierarchy_json, site

mainVars == <<main_pc, skip_fetch, repos_json, hierarchy_json, site>>

\* a call of fetch_org_repos (src/src/github_fetcher.py): where the call is,
\* its locals page and repos, its two flags, the pages the source holds and
\* the page numbers requested so far
VARIABLES fetch_pc, page, fetch_repos, include_forks, include_archived, source,
          requested

fetchVars == <<fetch_pc, page, fetch_repos, include_forks, include_archived, source,
               requested>>

vars == <<repositories, pc, i, topics, languages, topic_connections, first, second,
          subject, product, difficulty, filterVars, mainVars, fetchVars>>

(* ------------------------------ bounds --------------------------------- *)

\* longest batch of the general input family
MaxRecords == 2

\* number of records (and of distinct topic / language labels) of the
\* ranking input families; more than TopN so that the top lists are cut
RankWidth == 11

\* longest selectedTopics array that getFilteredRepos is called with
MaxSelected == 2

\* number of pages a source holds before it answers the same way for ever
MaxPages == 2

(* ------------------------- repository dicts ---------------------------- *)

AllKeys == {"name", "full_name", "description", "url", "topics", "language",
            "stars", "forks", "updated_at", "archived", "is_fork"}

RepoNames == <<"r01", "r02", "r03", "r04", "r05", "r06", "r07", "r08",
               "r09", "r10", "r11", "r12", "r13", "r14">>

RepoUrls == <<"u01", "u02", "u03", "u04", "u05", "u06", "u07", "u08",
              "u09", "u10", "u11", "u12", "u13", "u14">>

RankTopics == <<"t01", "t02", "t03", "t04", "t05", "t06", "t07", "t08",
                "t09", "t10", "t11", "t12", "t13", "t14">>

RankLanguages == <<"l01", "l02", "l03", "l04", "l05", "l06", "l07", "l08",
                   "l09", "l10", "l11", "l12", "l13", "l14">>

\* a dict without the keys `missing`, with None for the keys `nulls`
Repo(missing, nulls, ts, lang, st, fk) ==
    [keys        |-> AllKeys \ missing,
     nulls       |-> nulls,
     name        |-> "",
     url         |-> "",
     topics      |-> ts,
     language    |-> lang,
     stars       |-> st,
     forks       |-> fk]

\* the dicts of the general input family, before name and url are filled in
RepoShapes ==
    { Repo({}, {}, <<>>, "Go", 0, 1),
      Repo({}, {}, <<"x">>, "Go", 1, 1),
      Repo({}, {}, <<"x", "y">>, "Python", 2, 0),
      Repo({}, {}, <<"y", "x">>, "Go", 1, 2),
      Repo({}, {}, <<"y">>, "Python", 0, 0),
      Repo({}, {}, <<"uncategorized">>, "Go", 1, 0),
      Repo({}, {}, <<"x", "uncategorized">>, "Python", 1, 1),
      Repo({}, {}, <<"x", "x">>, "Go", 1, 0),
      Repo({}, {}, <<"y">>, "Unknown", 1, 0),
      Repo({}, {}, <<"x">>, "", 1, 0),
      Repo({"topics"}, {}, <<>>, "Go", 1, 1),
      Repo({"stars", "forks"}, {}, <<"x", "y">>, "Go", 0, 0),
      Repo({"description", "topics", "language", "stars", "forks"}, {},
           <<>>, "", 0, 0),
      Repo({}, {"language"}, <<"y", "x">>, "", 1, 2),
      Repo({}, {"topics"}, <<>>, "Go", 1, 0),
      Repo({}, {"stars"}, <<"x">>, "Go", 0, 1),
      Repo({}, {"forks"}, <<>>, "Python", 1, 0),
      Repo({"name"}, {}, <<>>, "Go", 1, 0),
      Repo({"name"}, {}, <<"x">>, "Go", 1, 0),
      Repo({"name"}, {}, <<"x", "y">>, "Go", 1, 0),
      Repo({"url"}, {}, <<"y">>, "Python", 0, 1),
      Repo({"url"}, {}, <<"y", "x">>, "Python", 0, 1) }

\* the dict at position p of a batch: names are unique within the batch
Named(s, p) ==
    [s EXCEPT !.name = IF "name" \in s.keys THEN RepoNames[p] ELSE "",
              !.url  = IF "url" \in s.keys THEN RepoUrls[p] ELSE ""]

GeneralBatches ==
    UNION { { [p \in 1..n |-> Named(f[p], p)] : f \in [1..n -> RepoShapes] }
            : n \in 0..MaxRecords }

\* two records whose topic lists are runs of RankTopics: up to RankWidth
\* distinct topics, with ties and with counts that differ
TopicRuns ==
    { SubSeq(RankTopics, a, b) : a \in 1..RankWidth, b \in (RankWidth - 2)..RankWidth }

WideTopicBatches ==
    { <<Named(Repo({}, {}, t1, "Go", 1, 0), 1),
        Named(Repo({}, {}, t2, "Go", 0, 1), 2)>> : t1 \in TopicRuns, t2 \in TopicRuns }

\* a record with the k-th topic and the k-th language of the ranking labels
Labelled(k) == Repo({}, {}, <<RankTopics[k]>>, RankLanguages[k], 1, 1)

\* at most one record with any label, then one record for each of RankWidth
\* labels, then at most one record with any label: more than TopN topic and
\* language groups, of sizes 1 to 3, inserted in different orders
ExtraRecords == {<<>>} \cup { <<Labelled(k)>> : k \in 1..RankWidth }

ManyLanguageBatches ==
    { LET batch == pre \o [k \in 1..RankWidth |-> Labelled(k)] \o post
      IN  [p \in 1..Len(batch) |-> Named(batch[p], p)]
      : pre \in ExtraRecords, post \in ExtraRecords }

\* three records with the topic lists [], ["x"], ["x", "y"], in any languages
ScenarioBatches ==
    { <<Named(Repo({}, {}, <<>>, l1, 1, 0), 1),
        Named(Repo({}, {}, <<"x">>, l2, 2, 1), 2),
        Named(Repo({}, {}, <<"x", "y">>, l3, 0, 1), 3)>>
      : l1 \in {"Go", "Python"}, l2 \in {"Go", "Python"}, l3 \in {"Go", ""} }

Batches ==
    GeneralBatches \cup WideTopicBatches \cup ManyLanguageBatches \cup ScenarioBatches

(* --------------------------- dict access -------------------------------- *)

HasKey(repo, k) == k \in repo.keys

\* the value of repo.get(k, default) is None
GetIsNone(repo, k) == HasKey(repo, k) /\ k \in repo.nulls

\* repo.get("topics", []), when it is not None
GetTopics(repo) == IF HasKey(repo, "topics") THEN repo.topics ELSE <<>>

\* faulty variant of LanguageTruthy: "is not None" instead of truthiness
LanguageTruthyNotNone(repo) ==
    HasKey(repo, "language") /\ "language" \notin repo.nulls

\* repo.get("language") is truthy: neither None (absent or null) nor ""
LanguageTruthy(repo) ==
    HasKey(repo, "language") /\ "language" \notin repo.nulls /\ repo.language # ""

\* repo.get("stars", 0) and repo.get("forks", 0), when they are not None
GetStars(repo) == IF HasKey(repo, "stars") THEN repo.stars ELSE 0

GetForks(repo) == IF HasKey(repo, "forks") THEN repo.forks ELSE 0

(* --------------------- ordered mappings (dict) ------------------------- *)

\* a dict is the sequence of its entries in insertion order; every entry has
\* a field "name", its key
HasEntry(d, k) == \E j \in 1..Len(d) : d[j].name = k

IndexOf(d, k) == CHOOSE j \in 1..Len(d) : d[j].name = k

\* TopicNode(name=topic): repositories = [], count = 0
TopicNode(topic) == [name |-> topic, repositories |-> <<>>, count |-> 0]

\* faulty variant of AddToTopic: the count of a new group is not incremented
AddToTopicCountsLate(d, topic, ref) ==
    LET e == IF HasEntry(d, topic) THEN d ELSE Append(d, TopicNode(topic))
        j == IndexOf(e, topic)
    IN  [e EXCEPT ![j].repositories = Append(@, ref),
                  ![j].count = IF HasEntry(d, topic) THEN @ + 1 ELSE @]

\* if topic not in topics: topics[topic] = TopicNode(name=topic)
\* topics[topic].repositories.append(repo); topics[topic].count += 1
AddToTopic(d, topic, ref) ==
    LET e == IF HasEntry(d, topic) THEN d ELSE Append(d, TopicNode(topic))
        j == IndexOf(e, topic)
    IN  [e EXCEPT ![j].repositories = Append(@, ref), ![j].count = @ + 1]

\* for topic in repo_topics: ...
RECURSIVE AddToTopics(_, _, _)
AddToTopics(d, ts, ref) ==
    IF ts = <<>> THEN d
    ELSE AddToTopics(AddToTopic(d, Head(ts), ref), Tail(ts), ref)

\* faulty variant of AddUncategorized: only the first record without topics is
\* filed, the group is not extended once it exists
AddUncategorizedNewGroupOnly(d, ts, ref) ==
    IF ts = <<>> /\ ~HasEntry(d, "uncategorized")
    THEN AddToTopic(d, "uncategorized", ref) ELSE d

\* if not repo_topics: the record goes to topics["uncategorized"]
AddUncategorized(d, ts, ref) ==
    IF ts = <<>> THEN AddToTopic(d, "uncategorized", ref) ELSE d

\* faulty variant of AddToLanguage: a new key is put in front of the others
AddToLanguageNewKeyFirst(d, key, ref) ==
    LET e == IF HasEntry(d, key) THEN d
             ELSE <<[name |-> key, repositories |-> <<>>]>> \o d
        j == IndexOf(e, key)
    IN  [e EXCEPT ![j].repositories = Append(@, ref)]

\* faulty variant of AddToLanguage: languages["Unknown"] is read first, which
\* makes the defaultdict create that group, empty
AddToLanguageTouchesUnknown(d, key, ref) ==
    LET u == IF HasEntry(d, "Unknown") THEN d
             ELSE Append(d, [name |-> "Unknown", repositories |-> <<>>])
        e == IF HasEntry(u, key) THEN u
             ELSE Append(u, [name |-> key, repositories |-> <<>>])
        j == IndexOf(e, key)
    IN  [e EXCEPT ![j].repositories = Append(@, ref)]

\* languages[key].append(repo) on a defaultdict(list)
AddToLanguage(d, key, ref) ==
    LET e == IF HasEntry(d, key) THEN d
             ELSE Append(d, [name |-> key, repositories |-> <<>>])
        j == IndexOf(e, key)
    IN  [e EXCEPT ![j].repositories = Append(@, ref)]

\* the key under which a repository is filed in languages
LanguageKey(repo) == IF LanguageTruthy(repo) THEN repo.language ELSE "Unknown"

\* the entry appended to topic_connections
Connection(repo, ts) == [repository |-> repo.name, topics |-> ts, url |-> repo.url]

\* faulty variant of AddConnection: the entry is put in front (insert(0, ...))
AddConnectionInFront(conns, repo, ts) ==
    IF Len(ts) > 1 THEN <<Connection(repo, ts)>> \o conns ELSE conns

\* if len(repo_topics) > 1: topic_connections.append({...})
AddConnection(conns, repo, ts) ==
    IF Len(ts) > 1 THEN Append(conns, Connection(repo, ts)) ELSE conns

\* building the entry reads repo["name"] and repo["url"]: KeyError when absent
ConnectionRaises(repo, ts) ==
    Len(ts) > 1 /\ (~HasKey(repo, "name") \/ ~HasKey(repo, "url"))

(* ------------------------- _calculate_stats ---------------------------- *)

\* length of the top_topics and top_languages lists: the slice [:10]
TopN == 10

RECURSIVE SumStars(_)
SumStars(repos) ==
    IF repos = <<>> THEN 0 ELSE GetStars(Head(repos)) + SumStars(Tail(repos))

\* faulty variant of SumForks: the number of records that have forks
RECURSIVE SumForksCountsRecords(_)
SumForksCountsRecords(repos) ==
    IF repos = <<>> THEN 0
    ELSE (IF GetForks(Head(repos)) > 0 THEN 1 ELSE 0)
             + SumForksCountsRecords(Tail(repos))

RECURSIVE SumForks(_)
SumForks(repos) ==
    IF repos = <<>> THEN 0 ELSE GetForks(Head(repos)) + SumForks(Tail(repos))

\* faulty variant of StatsRaises: repo["stars"] and repo["forks"] instead of .get
StatsRaisesOnAbsent(repos) ==
    \E j \in 1..Len(repos) :
        \/ ~HasKey(repos[j], "stars") \/ ~HasKey(repos[j], "forks")
        \/ GetIsNone(repos[j], "stars") \/ GetIsNone(repos[j], "forks")

\* sum(...) adds None to an integer: TypeError
StatsRaises(repos) ==
    \E j \in 1..Len(repos) : GetIsNone(repos[j], "stars") \/ GetIsNone(repos[j], "forks")

\* topics.items() with key x[1].count, as (name, count) pairs
TopicItems(d) == [j \in 1..Len(d) |-> [name |-> d[j].name, count |-> d[j].count]]

\* languages.items() with key len(x[1]), as (name, count) pairs
LanguageItems(d) ==
    [j \in 1..Len(d) |-> [name |-> d[j].name, count |-> Len(d[j].repositories)]]

\* faulty variant of RankPosition: ties are put in front, as by an ascending sort
\* that is reversed afterwards
RankPositionBeforeTies(s, e) == Cardinality({j \in 1..Len(s) : s[j].count > e.count})

\* where a stable descending sort puts item e in the sorted run s: behind
\* every item whose count is at least e.count
RankPosition(s, e) == Cardinality({j \in 1..Len(s) : s[j].count >= e.count})

InsertRanked(s, e) ==
    LET k == RankPosition(s, e)
    IN  SubSeq(s, 1, k) \o <<e>> \o SubSeq(s, k + 1, Len(s))

\* sorted(items, key=count, reverse=True): stable, descending
RECURSIVE SortedByCount(_)
SortedByCount(items) ==
    IF items = <<>> THEN <<>>
    ELSE InsertRanked(SortedByCount(SubSeq(items, 1, Len(items) - 1)),
                      items[Len(items)])

\* faulty variant of Take: the slice s[:n + 1]
TakeOneMore(s, n) == SubSeq(s, 1, IF Len(s) < n + 1 THEN Len(s) ELSE n + 1)

\* the slice s[:n]
Take(s, n) == SubSeq(s, 1, IF Len(s) < n THEN Len(s) ELSE n)

TopOf(items) == Take(SortedByCount(items), TopN)

\* faulty variant of TotalTopics: len(topics)
TotalTopicsAllKeys(d) == Len(d)

\* len([t for t in topics if t != "uncategorized"])
TotalTopics(d) == Cardinality({j \in 1..Len(d) : d[j].name # "uncategorized"})

\* faulty variant of TotalLanguages: len(languages)
TotalLanguagesAllKeys(d) == Len(d)

\* len([l for l in languages if l != "Unknown"])
TotalLanguages(d) == Cardinality({j \in 1..Len(d) : d[j].name # "Unknown"})

\* faulty variant of MultipleTopicsCount: len(...) > 0
MultipleTopicsCountAtLeastOne(repos) ==
    Cardinality({j \in 1..Len(repos) : Len(GetTopics(repos[j])) > 0})

\* len([r for r in self.repositories if len(r.get("topics", [])) > 1])
MultipleTopicsCount(repos) ==
    Cardinality({j \in 1..Len(repos) : Len(GetTopics(repos[j])) > 1})

\* faulty variant of WithoutTopicsCount: "topics" not in r
WithoutTopicsCountAbsentOnly(repos) ==
    Cardinality({j \in 1..Len(repos) : ~HasKey(repos[j], "topics")})

\* len([r for r in self.repositories if not r.get("topics")])
WithoutTopicsCount(repos) ==
    Cardinality({j \in 1..Len(repos) :
                    GetIsNone(repos[j], "topics") \/ GetTopics(repos[j]) = <<>>})

CalculateStats(repos, ts, ls) ==
    [total_repositories         |-> Len(repos),
     total_topics               |-> TotalTopics(ts),
     total_languages            |-> TotalLanguages(ls),
     total_stars                |-> SumStars(repos),
     total_forks                |-> SumForks(repos),
     top_topics                 |-> TopOf(TopicItems(ts)),
     top_languages              |-> TopOf(LanguageItems(ls)),
     repos_with_multiple_topics |-> MultipleTopicsCount(repos),
     repos_without_topics       |-> WithoutTopicsCount(repos)]

(* ------------------ the page's classifiers (JavaScript) ----------------- *)

\* A JavaScript string is the sequence of its characters.  A record given to
\* the classifiers has the fields "keys" and "nulls" like a repository dict
\* (an absent key reads as undefined, a key in nulls as null).

UpperCase == <<"A", "B", "C", "D", "E", "F", "G", "H", "I", "J", "K", "L", "M", "N", "O", "P", "Q", "R", "S", "T", "U", "V", "W", "X", "Y", "Z">>

LowerCase == <<"a", "b", "c", "d", "e", "f", "g", "h", "i", "j", "k", "l", "m", "n", "o", "p", "q", "r", "s", "t", "u", "v", "w", "x", "y", "z">>

\* String.prototype.toLowerCase, one character
LowerChar(c) ==
    IF \E k \in 1..Len(UpperCase) : UpperCase[k] = c
    THEN LowerCase[CHOOSE k \in 1..Len(UpperCase) : UpperCase[k] = c]
    ELSE c

\* String.prototype.toLowerCase
ToLowerCase(str) == [k \in 1..Len(str) |-> LowerChar(str[k])]

\* String.prototype.includes
Includes(str, kw) ==
    \E a \in 0..(Len(str) - Len(kw)) : SubSeq(str, a + 1, a + Len(kw)) = kw

\* keywords.some(kw => combined.includes(kw))
SomeIncluded(keywords, combined) ==
    \E k \in 1..Len(keywords) : Includes(combined, keywords[k])

\* Array.prototype.join
RECURSIVE Join(_, _)
Join(strs, sep) ==
    IF strs = <<>> THEN <<>>
    ELSE IF Len(strs) = 1 THEN strs[1]
    ELSE strs[1] \o sep \o Join(Tail(strs), sep)

\* repo.description || ''
DescriptionOrEmpty(r) ==
    IF "description" \in r.keys /\ "description" \notin r.nulls THEN r.description
    ELSE <<>>

\* repo.topics is truthy (an array, even an empty one)
TopicsTruthy(r) == "topics" \in r.keys /\ "topics" \notin r.nulls

\* repo.topics || []
TopicsOrEmpty(r) == IF TopicsTruthy(r) THEN r.topics ELSE <<>>

\* combined = name + ' ' + desc + ' ' + topics.join(' '), every part lower-cased
Combined(r) ==
    ToLowerCase(r.name) \o <<" ">> \o ToLowerCase(DescriptionOrEmpty(r)) \o <<" ">>
        \o Join([k \in 1..Len(TopicsOrEmpty(r)) |-> ToLowerCase(TopicsOrEmpty(r)[k])],
                <<" ">>)

\* langsmithKeywords
LangsmithKeywords ==
    << <<"l", "a", "n", "g", "s", "m", "i", "t", "h">>,
       <<"t", "r", "a", "c", "i", "n", "g">>,
       <<"t", "r", "a", "c", "e">>,
       <<"e", "v", "a", "l">>,
       <<"d", "e", "b", "u", "g">>,
       <<"o", "b", "s", "e", "r", "v", "a", "b", "i", "l", "i", "t", "y">>,
       <<"o", "t", "e", "l">>,
       <<"c", "i", "c", "d">>,
       <<"d", "e", "p", "l", "o", "y", "m", "e", "n", "t">>,
       <<"l", "s", "-", "d", "e", "p", "l", "o", "y", "m", "e", "n", "t">> >>

\* langgraphKeywords
LanggraphKeywords ==
    << <<"l", "a", "n", "g", "g", "r", "a", "p", "h">>,
       <<"g", "r", "a", "p", "h">>,
       <<"a", "g", "e", "n", "t", "-", "b", "u", "i", "l", "d", "e", "r">>,
       <<"a", "g", "e", "n", "t", "2", "a", "g", "e", "n", "t">>,
       <<"a", "g", "e", "n", "t", "-", "o", "a", "u", "t", "h">>,
       <<"a", "z", "u", "r", "e", "-", "l", "a", "n", "g", "g", "r", "a", "p", "h">>,
       <<"r", "e", "m", "o", "t", "e", "-", "g", "r", "a", "p", "h">> >>

\* langchainKeywords
LangchainKeywords ==
    << <<"l", "a", "n", "g", "c", "h", "a", "i", "n">>,
       <<"g", "u", "a", "r", "d", "r", "a", "i", "l">>,
       <<"m", "i", "d", "d", "l", "e", "w", "a", "r", "e">>,
       <<"f", "r", "a", "m", "e", "w", "o", "r", "k">>,
       <<"p", "r", "o", "m", "p", "t">> >>

\* the name '.github'
DotGithub == <<".", "g", "i", "t", "h", "u", "b">>

\* faulty variant of IsDotGithub: the raw name is compared with 'github'
IsDotGithubNoDot(r) == r.name = <<"g", "i", "t", "h", "u", "b">>

\* name === '.github', name being repo.name.toLowerCase()
IsDotGithub(r) == ToLowerCase(r.name) = DotGithub

\* faulty variant of ClassifyRepoByProduct: LangGraph is tried first
ClassifyRepoByProductGraphFirst(r) ==
    IF IsDotGithub(r) THEN "null"
    ELSE IF SomeIncluded(LanggraphKeywords, Combined(r)) THEN "langgraph"
    ELSE IF SomeIncluded(LangsmithKeywords, Combined(r)) THEN "langsmith"
    ELSE IF SomeIncluded(LangchainKeywords, Combined(r)) THEN "langchain"
    ELSE "null"

\* classifyRepoByProduct(repo); "null" is the value null
ClassifyRepoByProduct(r) ==
    IF IsDotGithub(r) THEN "null"
    ELSE IF SomeIncluded(LangsmithKeywords, Combined(r)) THEN "langsmith"
    ELSE IF SomeIncluded(LanggraphKeywords, Combined(r)) THEN "langgraph"
    ELSE IF SomeIncluded(LangchainKeywords, Combined(r)) THEN "langchain"
    ELSE "null"

\* difficultyLevels.beginner.keywords
BeginnerKeywords ==
    << <<"i", "n", "t", "r", "o">>,
       <<"g", "e", "t", "t", "i", "n", "g", "-", "s", "t", "a", "r", "t", "e", "d">>,
       <<"b", "a", "s", "i", "c", "s">>,
       <<"t", "u", "t", "o", "r", "i", "a", "l">>,
       <<"q", "u", "i", "c", "k", "s", "t", "a", "r", "t">>,
       <<"h", "e", "l", "l", "o">>,
       <<"s", "i", "m", "p", "l", "e">>,
       <<"s", "t", "a", "r", "t", "e", "r">>,
       <<"d", "e", "m", "o">>,
       <<"e", "x", "a", "m", "p", "l", "e">> >>

\* difficultyLevels.intermediate.keywords
IntermediateKeywords ==
    << <<"i", "n", "t", "e", "g", "r", "a", "t", "i", "o", "n">>,
       <<"c", "o", "o", "k", "b", "o", "o", "k">>,
       <<"w", "o", "r", "k", "s", "h", "o", "p">>,
       <<"c", "u", "s", "t", "o", "m">>,
       <<"c", "h", "a", "t">>,
       <<"r", "a", "g">>,
       <<"r", "e", "t", "r", "i", "e", "v", "a", "l">> >>

\* difficultyLevels.advanced.keywords
AdvancedKeywords ==
    << <<"p", "r", "o", "d", "u", "c", "t", "i", "o", "n">>,
       <<"d", "e", "p", "l", "o", "y", "m", "e", "n", "t">>,
       <<"c", "i", "c", "d">>,
       <<"p", "i", "p", "e", "l", "i", "n", "e">>,
       <<"a", "g", "e", "n", "t">>,
       <<"l", "a", "n", "g", "g", "r", "a", "p", "h">>,
       <<"d", "i", "s", "t", "r", "i", "b", "u", "t", "e", "d">>,
       <<"r", "e", "m", "o", "t", "e">> >>

\* difficultyLevels.expert.keywords
ExpertKeywords ==
    << <<"e", "v", "a", "l">>,
       <<"g", "u", "a", "r", "d", "r", "a", "i", "l">>,
       <<"s", "e", "c", "u", "r", "i", "t", "y">>,
       <<"o", "p", "t", "i", "m", "i", "z", "a", "t", "i", "o", "n">>,
       <<"f", "r", "a", "m", "e", "w", "o", "r", "k">>,
       <<"c", "o", "n", "t", "e", "x", "t", "-", "f", "a", "i", "l", "u", "r", "e">>,
       <<"m", "c", "p">>,
       <<"a", "u", "t", "h">> >>

\* Object.entries(difficultyLevels): the levels in the order they are written
DifficultyLevels ==
    << [level |-> "beginner", keywords |-> BeginnerKeywords],
       [level |-> "intermediate", keywords |-> IntermediateKeywords],
       [level |-> "advanced", keywords |-> AdvancedKeywords],
       [level |-> "expert", keywords |-> ExpertKeywords] >>

\* faulty variant of DifficultyFallback: length > 1
DifficultyFallbackFromTwo(r) ==
    IF TopicsTruthy(r) /\ Len(r.topics) > 1 THEN "intermediate" ELSE "beginner"

\* if (repo.topics && repo.topics.length > 2) return 'intermediate';
\* return 'beginner';
DifficultyFallback(r) ==
    IF TopicsTruthy(r) /\ Len(r.topics) > 2 THEN "intermediate" ELSE "beginner"

\* the for loop of classifyDifficulty from the k-th level on
RECURSIVE DifficultyFrom(_, _)
DifficultyFrom(r, k) ==
    IF k > Len(DifficultyLevels) THEN DifficultyFallback(r)
    ELSE IF SomeIncluded(DifficultyLevels[k].keywords, Combined(r))
         THEN DifficultyLevels[k].level
         ELSE DifficultyFrom(r, k + 1)

\* classifyDifficulty(repo)
ClassifyDifficulty(r) == DifficultyFrom(r, 1)

\* a record of hierarchyData as the script sees it
PageRepo(missing, nulls, name, desc, ts) ==
    [keys        |-> AllKeys \ missing,
     nulls       |-> nulls,
     name        |-> name,
     description |-> desc,
     topics      |-> ts]

PageNames ==
    { DotGithub,
      <<"f", "o", "o">>,
      <<"R", "e", "t", "r", "a", "c", "e">>,
      <<"G", "r", "a", "p", "h", "-", "E", "v", "a", "l">>,
      <<"p", "r", "o", "m", "p", "t", "s">>,
      <<"d", "e">> }

PageDescriptions ==
    { <<>>,
      <<"b", "u", "g", " ", "f", "i", "x", "e", "s">>,
      <<"A", " ", "T", "u", "t", "o", "r", "i", "a", "l">>,
      <<"A", "g", "e", "n", "t", " ", "d", "e", "m", "o">> }

PageTopicLists ==
    { <<>>,
      <<<<"c", "h", "a", "t", "b", "o", "t">>>>,
      <<<<"e">>, <<"v", "a", "l">>>>,
      <<<<"a">>, <<"b">>, <<"c">>>>,
      <<<<"a", "u", "t", "h">>, <<"L", "a", "n", "g", "C", "h", "a", "i", "n">>, <<"x">>>> }

\* the records the classifiers are tried on: description and topics may be
\* absent or null
PageRepos ==
    { PageRepo({}, {}, n, d, ts) :
          n \in PageNames, d \in PageDescriptions, ts \in PageTopicLists }
    \cup { PageRepo({"description"}, {"topics"}, n, <<>>, <<>>) : n \in PageNames }
    \cup { PageRepo({"topics"}, {"description"}, n, <<>>, <<>>) : n \in PageNames }
    \cup { PageRepo({}, {"description"}, n, <<>>, ts) :
              n \in PageNames, ts \in PageTopicLists }
    \cup { PageRepo({}, {"topics"}, n, d, <<>>) :
              n \in PageNames, d \in PageDescriptions }

\* no record has been given to the classifiers
NoPageRepo == PageRepo({}, {}, <<>>, <<>>, <<>>)

(* --------------------------- build_hierarchy --------------------------- *)

\* the page is not loaded
FilterIdle ==
    /\ hierarchyData = <<>>
    /\ currentView = "topics"
    /\ selectedTopics = <<>>
    /\ selectedProduct = "null"
    /\ searchQuery = <<>>
    /\ sidebar = {}
    /\ shown = [rendered |-> FALSE, repos |-> <<>>]

\* the build script is not run
MainIdle ==
    /\ main_pc = "off"
    /\ skip_fetch = FALSE
    /\ repos_json = FALSE
    /\ hierarchy_json = "none"
    /\ site = "none"

\* fetch_org_repos is not called
FetchIdle ==
    /\ fetch_pc = "off"
    /\ page = 1
    /\ fetch_repos = <<>>
    /\ include_forks = FALSE
    /\ include_archived = FALSE
    /\ source = [pages |-> <<>>, then |-> "empty"]
    /\ requested = <<>>

NoStats == CalculateStats(<<>>, <<>>, <<>>)

\* no call has returned yet
NoOutcome ==
    [status |-> "none", error |-> "", topics |-> <<>>, all_repositories |-> <<>>,
     topic_connections |-> <<>>, languages |-> <<>>, stats |-> NoStats]

\* the call raised: no HierarchyData is returned
Raised(error) == [NoOutcome EXCEPT !.status = "raised", !.error = error]

\* faulty variant of HierarchyData: all_repositories is a reversed copy
HierarchyDataReversed(ts, repos, conns, ls, stats) ==
    [status |-> "returned", error |-> "", topics |-> ts,
     all_repositories |-> [j \in 1..Len(repos) |-> repos[Len(repos) + 1 - j]],
     topic_connections |-> conns, languages |-> ls, stats |-> stats]

\* HierarchyData(topics, all_repositories, topic_connections, languages, stats)
HierarchyData(ts, repos, conns, ls, stats) ==
    [status |-> "returned", error |-> "", topics |-> ts, all_repositories |-> repos,
     topic_connections |-> conns, languages |-> ls, stats |-> stats]

Init ==
    /\ repositories \in Batches
    /\ pc = "idle"
    /\ i = 1
    /\ topics = <<>>
    /\ languages = <<>>
    /\ topic_connections = <<>>
    /\ first = NoOutcome
    /\ second = NoOutcome
    /\ subject = NoPageRepo
    /\ product = "unset"
    /\ difficulty = "unset"
    /\ FilterIdle
    /\ MainIdle
    /\ FetchIdle

\* the outcome of a call is recorded: of the first call in first, of the
\* call after it in second
Finish(outcome) ==
    /\ pc' = "idle"
    /\ IF first.status = "none"
       THEN first' = outcome /\ UNCHANGED second
       ELSE second' = outcome /\ UNCHANGED first

\* faulty variant of BuildStart: the groupings are attributes of the builder that
\* are not reset by a call
BuildStartKeepsGroups ==
    /\ pc = "idle"
    /\ second.status = "none"
    /\ pc' = "loop"
    /\ i' = 1
    /\ UNCHANGED <<repositories, topics, languages, topic_connections, first, second>>
    /\ UNCHANGED <<pageVars, filterVars, mainVars, fetchVars>>

\* a call of build_hierarchy begins: fresh topics, languages, topic_connections
BuildStart ==
    /\ pc = "idle"
    /\ second.status = "none"
    /\ pc' = "loop"
    /\ i' = 1
    /\ topics' = <<>>
    /\ languages' = <<>>
    /\ topic_connections' = <<>>
    /\ UNCHANGED <<repositories, first, second>>
    /\ UNCHANGED <<pageVars, filterVars, mainVars, fetchVars>>

\* one iteration of "for repo in self.repositories"
ProcessRecord ==
    /\ pc = "loop"
    /\ i <= Len(repositories)
    /\ LET repo == repositories[i]
           repo_topics == GetTopics(repo)
       IN  IF GetIsNone(repo, "topics")
           THEN \* "for topic in None": TypeError
                /\ Finish(Raised("TypeError"))
                /\ UNCHANGED <<i, topics, languages, topic_connections>>
           ELSE /\ topics' = AddUncategorized(AddToTopics(topics, repo_topics, i),
                                              repo_topics, i)
                /\ languages' = AddToLanguage(languages, LanguageKey(repo), i)
                /\ IF ConnectionRaises(repo, repo_topics)
                   THEN /\ Finish(Raised("KeyError"))
                        /\ UNCHANGED <<i, topic_connections>>
                   ELSE /\ topic_connections' =
                               AddConnection(topic_connections, repo, repo_topics)
                        /\ i' = i + 1
                        /\ UNCHANGED <<pc, first, second>>
    /\ UNCHANGED repositories
    /\ UNCHANGED <<pageVars, filterVars, mainVars, fetchVars>>

\* after the loop: stats = self._calculate_stats(...); return HierarchyData(...)
BuildReturn ==
    /\ pc = "loop"
    /\ i > Len(repositories)
    /\ IF StatsRaises(repositories)
       THEN Finish(Raised("TypeError"))
       ELSE Finish(HierarchyData(topics, repositories, topic_connections, languages,
                                 CalculateStats(repositories, topics, languages)))
    /\ UNCHANGED <<repositories, i, topics, languages, topic_connections>>
    /\ UNCHANGED <<pageVars, filterVars, mainVars, fetchVars>>

Next == BuildStart \/ ProcessRecord \/ BuildReturn

Spec == Init /\ [][Next]_vars

(* ----------------------- the classifiers at work ----------------------- *)

builderVars ==
    <<repositories, pc, i, topics, languages, topic_connections, first, second>>

\* the page is loaded with a record; no builder is at work
InitPage ==
    /\ repositories = <<>>
    /\ pc = "idle"
    /\ i = 1
    /\ topics = <<>>
    /\ languages = <<>>
    /\ topic_connections = <<>>
    /\ first = NoOutcome
    /\ second = NoOutcome
    /\ subject \in PageRepos
    /\ product = "unset"
    /\ difficulty = "unset"
    /\ FilterIdle
    /\ MainIdle
    /\ FetchIdle

\* a call of classifyRepoByProduct(subject)
CallClassifyRepoByProduct ==
    /\ product = "unset"
    /\ product' = ClassifyRepoByProduct(subject)
    /\ UNCHANGED <<subject, difficulty>>
    /\ UNCHANGED <<builderVars, filterVars, mainVars, fetchVars>>

\* a call of classifyDifficulty(subject)
CallClassifyDifficulty ==
    /\ difficulty = "unset"
    /\ difficulty' = ClassifyDifficulty(subject)
    /\ UNCHANGED <<subject, product>>
    /\ UNCHANGED <<builderVars, filterVars, mainVars, fetchVars>>

NextPage == CallClassifyRepoByProduct \/ CallClassifyDifficulty

SpecPage == InitPage /\ [][NextPage]_vars

(* ------------------------ the build script (main) ----------------------- *)

\* records of a repos.json the build script is run on
PipelineShapes ==
    { Repo({}, {}, <<>>, "Go", 0, 1),
      Repo({}, {}, <<"x", "y">>, "Python", 2, 0),
      Repo({"topics"}, {}, <<>>, "Go", 1, 1),
      Repo({}, {"topics"}, <<>>, "Go", 1, 0),
      Repo({}, {"stars"}, <<"x">>, "Go", 0, 1),
      Repo({"name"}, {}, <<"x", "y">>, "Go", 1, 0) }

\* asdict(Repository(...)): a record written by save_to_json has every key
FetchedShapes == { s \in PipelineShapes : s.keys = AllKeys }

BatchesOf(shapes) ==
    UNION { { [p \in 1..n |-> Named(f[p], p)] : f \in [1..n -> shapes] }
            : n \in 0..MaxRecords }

\* main starts: with --skip-fetch repos.json holds any batch or does not
\* exist, without it step 1 writes a batch of fetched records
InitMain ==
    /\ main_pc = "step1"
    /\ skip_fetch \in BOOLEAN
    /\ repos_json \in BOOLEAN
    /\ repositories \in IF skip_fetch THEN BatchesOf(PipelineShapes)
                                     ELSE BatchesOf(FetchedShapes)
    /\ hierarchy_json = "none"
    /\ site = "none"
    /\ pc = "idle"
    /\ i = 1
    /\ topics = <<>>
    /\ languages = <<>>
    /\ topic_connections = <<>>
    /\ first = NoOutcome
    /\ second = NoOutcome
    /\ subject = NoPageRepo
    /\ product = "unset"
    /\ difficulty = "unset"
    /\ FilterIdle
    /\ FetchIdle

\* step 1 without --skip-fetch: fetch_org_repos returns and save_to_json
\* writes repos.json, or a request fails and the exception ends main
MainFetch ==
    /\ main_pc = "step1"
    /\ ~skip_fetch
    /\ \E ok \in BOOLEAN :
          IF ok THEN main_pc' = "step2" /\ repos_json' = TRUE
                ELSE main_pc' = "raised" /\ UNCHANGED repos_json
    /\ UNCHANGED <<skip_fetch, hierarchy_json, site>>
    /\ UNCHANGED <<builderVars, pageVars, filterVars, fetchVars>>

\* step 1 with --skip-fetch: sys.exit(1) if repos.json does not exist
MainSkipFetch ==
    /\ main_pc = "step1"
    /\ skip_fetch
    /\ main_pc' = IF repos_json THEN "step2" ELSE "exit"
    /\ UNCHANGED <<skip_fetch, repos_json, hierarchy_json, site>>
    /\ UNCHANGED <<builderVars, pageVars, filterVars, fetchVars>>

\* step 2: builder = HierarchyBuilder.from_json_file(repos_path);
\* hierarchy = builder.build_hierarchy()
MainBuildStart == main_pc = "step2" /\ first.status = "none" /\ BuildStart

MainProcessRecord == main_pc = "step2" /\ ProcessRecord

MainBuildReturn == main_pc = "step2" /\ BuildReturn

\* faulty variant of MainBuildRaised: the exception is caught and main goes on
MainBuildRaisedGoesOn ==
    /\ main_pc = "step2"
    /\ first.status = "raised"
    /\ main_pc' = "step3"
    /\ UNCHANGED <<skip_fetch, repos_json, hierarchy_json, site>>
    /\ UNCHANGED <<builderVars, pageVars, filterVars, fetchVars>>

\* build_hierarchy raised: the exception ends main
MainBuildRaised ==
    /\ main_pc = "step2"
    /\ first.status = "raised"
    /\ main_pc' = "raised"
    /\ UNCHANGED <<skip_fetch, repos_json, hierarchy_json, site>>
    /\ UNCHANGED <<builderVars, pageVars, filterVars, fetchVars>>

\* builder.save_hierarchy(hierarchy, hierarchy_path)
MainSaveHierarchy ==
    /\ main_pc = "step2"
    /\ pc = "idle"
    /\ first.status = "returned"
    /\ hierarchy_json' = "written"
    /\ main_pc' = "step3"
    /\ UNCHANGED <<skip_fetch, repos_json, site>>
    /\ UNCHANGED <<builderVars, pageVars, filterVars, fetchVars>>

\* step 3: SiteGenerator(hierarchy_path, org).generate(output_dir)
MainGenerate ==
    /\ main_pc = "step3"
    /\ site' = "generated"
    /\ main_pc' = "done"
    /\ UNCHANGED <<skip_fetch, repos_json, hierarchy_json>>
    /\ UNCHANGED <<builderVars, pageVars, filterVars, fetchVars>>

NextMain ==
    \/ MainFetch
    \/ MainSkipFetch
    \/ MainBuildStart
    \/ MainProcessRecord
    \/ MainBuildReturn
    \/ MainBuildRaised
    \/ MainSaveHierarchy
    \/ MainGenerate

SpecMain == InitMain /\ [][NextMain]_vars

(* ------------------- the page's filter state (JavaScript) --------------- *)

\* the key 'uncategorized' of hierarchyData.topics and the key 'Unknown' of
\* hierarchyData.languages, as JavaScript strings
UncategorizedText == <<"u", "n", "c", "a", "t", "e", "g", "o", "r", "i", "z", "e", "d">>

UnknownText == <<"U", "n", "k", "n", "o", "w", "n">>

\* the keys of difficultyLevels as JavaScript strings
LevelTexts ==
    [beginner     |-> <<"b", "e", "g", "i", "n", "n", "e", "r">>,
     intermediate |-> <<"i", "n", "t", "e", "r", "m", "e", "d", "i", "a", "t", "e">>,
     advanced     |-> <<"a", "d", "v", "a", "n", "c", "e", "d">>,
     expert       |-> <<"e", "x", "p", "e", "r", "t">>]

\* data-view of the three view buttons and data-product of the three panels
Views == {"topics", "language", "difficulty"}

Products == {"langchain", "langgraph", "langsmith"}

\* a record of all_repositories with its language
FilterRepo(missing, nulls, name, desc, ts, lang) ==
    PageRepo(missing, nulls, name, desc, ts) @@ [language |-> lang]

\* repo.language is truthy
PageLanguageTruthy(r) ==
    "language" \in r.keys /\ "language" \notin r.nulls /\ r.language # <<>>

\* repo.language || 'Unknown'
LanguageOrUnknown(r) == IF PageLanguageTruthy(r) THEN r.language ELSE UnknownText

\* Array.prototype.includes on an array of strings
InArray(arr, v) == \E k \in 1..Len(arr) : arr[k] = v

\* Array.prototype.indexOf: 0 stands for -1
IndexOfItem(arr, v) ==
    IF InArray(arr, v) THEN CHOOSE k \in 1..Len(arr) :
                                /\ arr[k] = v
                                /\ \A m \in 1..(k - 1) : arr[m] # v
    ELSE 0

\* Array.prototype.filter: the elements at the positions in keep, in order
RECURSIVE KeepWhere(_, _)
KeepWhere(arr, keep) ==
    IF arr = <<>> THEN <<>>
    ELSE IF Len(arr) \in keep
         THEN Append(KeepWhere(SubSeq(arr, 1, Len(arr) - 1), keep), arr[Len(arr)])
         ELSE KeepWhere(SubSeq(arr, 1, Len(arr) - 1), keep)

\* faulty variant of MatchesEveryTopic: selectedTopics.some(...)
MatchesSomeTopic(r, sel) ==
    \E k \in 1..Len(sel) :
        IF sel[k] = UncategorizedText THEN Len(TopicsOrEmpty(r)) = 0
        ELSE InArray(TopicsOrEmpty(r), sel[k])

\* the test of the topics view: selectedTopics.every(...)
MatchesEveryTopic(r, sel) ==
    \A k \in 1..Len(sel) :
        IF sel[k] = UncategorizedText THEN Len(TopicsOrEmpty(r)) = 0
        ELSE InArray(TopicsOrEmpty(r), sel[k])

\* the test of the selection, by view
MatchesSelection(r, view, sel) ==
    IF view = "language" THEN InArray(sel, LanguageOrUnknown(r))
    ELSE IF view = "difficulty" THEN InArray(sel, LevelTexts[ClassifyDifficulty(r)])
    ELSE MatchesEveryTopic(r, sel)

\* the test of the search box
MatchesSearch(r, query) ==
    \/ Includes(ToLowerCase(r.name), query)
    \/ Includes(ToLowerCase(DescriptionOrEmpty(r)), query)
    \/ \E k \in 1..Len(TopicsOrEmpty(r)) : Includes(ToLowerCase(TopicsOrEmpty(r)[k]), query)

\* getFilteredRepos()
GetFilteredRepos(data, view, sel, prod, query) ==
    KeepWhere(data.all_repositories,
              { j \in 1..Len(data.all_repositories) :
                  LET r == data.all_repositories[j]
                  IN  /\ r.name # DotGithub
                      /\ prod # "null" => ClassifyRepoByProduct(r) = prod
                      /\ Len(sel) > 0 => MatchesSelection(r, view, sel)
                      /\ query # <<>> => MatchesSearch(r, query) })

\* one rendered item of the sidebar: its data-topic and its class 'disabled'
SidebarItem(name, count, sel) ==
    [topic |-> name, disabled |-> (count = 0 /\ ~InArray(sel, name))]

\* renderTopics()
RenderTopics(data, view, sel, prod, query) ==
    LET filtered == GetFilteredRepos(data, view, sel, prod, query)
        Count(name) ==
            IF name = UncategorizedText
            THEN Cardinality({j \in 1..Len(filtered) :
                                 Len(TopicsOrEmpty(filtered[j])) = 0})
            ELSE Cardinality({j \in 1..Len(filtered) :
                                 InArray(TopicsOrEmpty(filtered[j]), name)})
    IN  { SidebarItem(name, Count(name), sel) : name \in data.topics }

\* renderLanguages()
RenderLanguages(data, view, sel, prod, query) ==
    LET filtered == GetFilteredRepos(data, view, sel, prod, query)
        Count(name) ==
            IF name = UnknownText
            THEN Cardinality({j \in 1..Len(filtered) : ~PageLanguageTruthy(filtered[j])})
            ELSE Cardinality({j \in 1..Len(filtered) :
                                 /\ PageLanguageTruthy(filtered[j])
                                 /\ filtered[j].language = name})
    IN  { SidebarItem(name, Count(name), sel) : name \in data.languages }

\* renderDifficulty()
RenderDifficulty(data, view, sel, prod, query) ==
    LET filtered == GetFilteredRepos(data, view, sel, prod, query)
        Count(level) ==
            Cardinality({j \in 1..Len(filtered) : ClassifyDifficulty(filtered[j]) = level})
    IN  { SidebarItem(LevelTexts[level], Count(level), sel) : level \in DOMAIN LevelTexts }

\* renderSidebar()
RenderSidebar(data, view, sel, prod, query) ==
    IF view = "language" THEN RenderLanguages(data, view, sel, prod, query)
    ELSE IF view = "difficulty" THEN RenderDifficulty(data, view, sel, prod, query)
    ELSE RenderTopics(data, view, sel, prod, query)

\* renderRepositories(): the cards of getFilteredRepos()
RenderRepositories(data, view, sel, prod, query) ==
    [rendered |-> TRUE, repos |-> GetFilteredRepos(data, view, sel, prod, query)]

\* the records embedded in the page: '.github', two records with topics and
\* a language, one without description, topics and language, one with one
\* topic and a null description
PageRecords ==
    << FilterRepo({}, {"language"}, DotGithub, <<>>, <<>>, <<>>),
       FilterRepo({}, {}, <<"f", "o", "o">>,
                  <<"A", " ", "T", "u", "t", "o", "r", "i", "a", "l">>,
                  << <<"x">>, <<"y">> >>, <<"G", "o">>),
       FilterRepo({}, {}, <<"G", "r", "a", "p", "h", "-", "E", "v", "a", "l">>,
                  <<"A", "g", "e", "n", "t", " ", "d", "e", "m", "o">>,
                  << <<"x">> >>, <<"P", "y", "t", "h", "o", "n">>),
       FilterRepo({"description", "topics", "language"}, {}, <<"d", "e">>,
                  <<>>, <<>>, <<>>),
       FilterRepo({}, {"description"}, <<"p", "r", "o", "m", "p", "t", "s">>,
                  <<>>, << <<"y">> >>, <<"G", "o">>) >>

Reversed(arr) == [k \in 1..Len(arr) |-> arr[Len(arr) + 1 - k]]

\* the keys of hierarchy.topics and hierarchy.languages that build_hierarchy
\* makes for the records
PageTopicKeys(recs) ==
    UNION { IF TopicsOrEmpty(recs[j]) = <<>> THEN {UncategorizedText}
            ELSE { TopicsOrEmpty(recs[j])[k] : k \in 1..Len(TopicsOrEmpty(recs[j])) }
            : j \in 1..Len(recs) }

PageLanguageKeys(recs) == { LanguageOrUnknown(recs[j]) : j \in 1..Len(recs) }

\* hierarchyData = json.dumps(self.hierarchy)
PageData(recs) ==
    [all_repositories |-> recs,
     topics           |-> PageTopicKeys(recs),
     languages        |-> PageLanguageKeys(recs)]

PageDatas ==
    { PageData(PageRecords), PageData(Reversed(PageRecords)),
      PageData(SubSeq(PageRecords, 2, 3)), PageData(<<>>) }

\* what is typed into the search box
SearchValues == { <<>>, <<"E">>, <<"x">>, <<"g", "o">> }

\* DOMContentLoaded: renderTopics(); renderRepositories()
InitFilter ==
    /\ hierarchyData \in PageDatas
    /\ currentView = "topics"
    /\ selectedTopics = <<>>
    /\ selectedProduct = "null"
    /\ searchQuery = <<>>
    /\ sidebar = RenderTopics(hierarchyData, "topics", <<>>, "null", <<>>)
    /\ shown = RenderRepositories(hierarchyData, "topics", <<>>, "null", <<>>)
    /\ repositories = <<>>
    /\ pc = "idle"
    /\ i = 1
    /\ topics = <<>>
    /\ languages = <<>>
    /\ topic_connections = <<>>
    /\ first = NoOutcome
    /\ second = NoOutcome
    /\ subject = NoPageRepo
    /\ product = "unset"
    /\ difficulty = "unset"
    /\ MainIdle
    /\ FetchIdle

\* renderSidebar(); renderRepositories() at the end of a handler
Rerender ==
    /\ sidebar' = RenderSidebar(hierarchyData, currentView', selectedTopics',
                                selectedProduct', searchQuery')
    /\ shown' = RenderRepositories(hierarchyData, currentView', selectedTopics',
                                   selectedProduct', searchQuery')

\* the input handler of the search box: only the cards are rendered again
InputSearch ==
    /\ \E v \in SearchValues : searchQuery' = ToLowerCase(v)
    /\ shown' = RenderRepositories(hierarchyData, currentView, selectedTopics,
                                   selectedProduct, searchQuery')
    /\ UNCHANGED <<hierarchyData, currentView, selectedTopics, selectedProduct, sidebar>>
    /\ UNCHANGED <<builderVars, pageVars, mainVars, fetchVars>>

\* faulty variant of ClickProductPanel: selectedTopics is left as it is
ClickProductPanelKeepsTopics ==
    /\ \E p \in Products :
          selectedProduct' = IF selectedProduct = p THEN "null" ELSE p
    /\ UNCHANGED selectedTopics
    /\ UNCHANGED <<hierarchyData, currentView, searchQuery>>
    /\ Rerender
    /\ UNCHANGED <<builderVars, pageVars, mainVars, fetchVars>>

\* the click handler of a product panel
ClickProductPanel ==
    /\ \E p \in Products :
          selectedProduct' = IF selectedProduct = p THEN "null" ELSE p
    /\ selectedTopics' = <<>>
    /\ UNCHANGED <<hierarchyData, currentView, searchQuery>>
    /\ Rerender
    /\ UNCHANGED <<builderVars, pageVars, mainVars, fetchVars>>

\* faulty variant of ClickViewButton: the selection is carried to the new view
ClickViewButtonKeepsTopics ==
    /\ \E v \in Views : currentView' = v
    /\ UNCHANGED selectedTopics
    /\ selectedProduct' = "null"
    /\ UNCHANGED <<hierarchyData, searchQuery>>
    /\ Rerender
    /\ UNCHANGED <<builderVars, pageVars, mainVars, fetchVars>>

\* the click handler of a view button
ClickViewButton ==
    /\ \E v \in Views : currentView' = v
    /\ selectedTopics' = <<>>
    /\ selectedProduct' = "null"
    /\ UNCHANGED <<hierarchyData, searchQuery>>
    /\ Rerender
    /\ UNCHANGED <<builderVars, pageVars, mainVars, fetchVars>>

\* faulty variant of ToggleTopic: splice(index) cuts the array from the item on
ToggleTopicCutsTail(sel, topic) ==
    LET index == IndexOfItem(sel, topic)
    IN  IF index = 0 THEN Append(sel, topic)
        ELSE SubSeq(sel, 1, index - 1)

\* toggleTopic(topic): what it makes of selectedTopics
ToggleTopic(sel, topic) ==
    LET index == IndexOfItem(sel, topic)
    IN  IF index = 0 THEN Append(sel, topic)
        ELSE SubSeq(sel, 1, index - 1) \o SubSeq(sel, index + 1, Len(sel))

\* the click handler of the sidebar: toggleTopic for an item that is not
\* disabled
ClickSidebarItem ==
    /\ \E item \in sidebar :
          /\ ~item.disabled
          /\ selectedTopics' = ToggleTopic(selectedTopics, item.topic)
    /\ selectedProduct' = "null"
    /\ UNCHANGED <<hierarchyData, currentView, searchQuery>>
    /\ Rerender
    /\ UNCHANGED <<builderVars, pageVars, mainVars, fetchVars>>

\* the click handler of the clear button
ClickClear ==
    /\ selectedTopics' = <<>>
    /\ selectedProduct' = "null"
    /\ UNCHANGED <<hierarchyData, currentView, searchQuery>>
    /\ Rerender
    /\ UNCHANGED <<builderVars, pageVars, mainVars, fetchVars>>

NextFilter ==
    \/ InputSearch
    \/ ClickProductPanel
    \/ ClickViewButton
    \/ ClickSidebarItem
    \/ ClickClear

SpecFilter == InitFilter /\ [][NextFilter]_vars

(* ---------------------- getFilteredRepos on any state ------------------- *)

\* values that selectedTopics can hold: topics, languages and levels
SelectableItems ==
    { <<"x">>, <<"y">>, UncategorizedText, <<"G", "o">>, UnknownText,
      LevelTexts["beginner"], LevelTexts["intermediate"] }

Selections ==
    UNION { [1..n -> SelectableItems] : n \in 0..MaxSelected }

\* the script is in any filter state and nothing is rendered yet
InitFiltered ==
    /\ hierarchyData \in { PageData(PageRecords), PageData(Reversed(PageRecords)) }
    /\ currentView \in Views
    /\ selectedTopics \in Selections
    /\ selectedProduct \in {"null", "langsmith", "langchain"}
    /\ searchQuery \in { <<>>, <<"e">> }
    /\ sidebar = {}
    /\ shown = [rendered |-> FALSE, repos |-> <<>>]
    /\ repositories = <<>>
    /\ pc = "idle"
    /\ i = 1
    /\ topics = <<>>
    /\ languages = <<>>
    /\ topic_connections = <<>>
    /\ first = NoOutcome
    /\ second = NoOutcome
    /\ subject = NoPageRepo
    /\ product = "unset"
    /\ difficulty = "unset"
    /\ MainIdle
    /\ FetchIdle

\* const repos = getFilteredRepos() in renderRepositories()
CallGetFilteredRepos ==
    /\ ~shown.rendered
    /\ shown' = RenderRepositories(hierarchyData, currentView, selectedTopics,
                                   selectedProduct, searchQuery)
    /\ UNCHANGED <<hierarchyData, currentView, selectedTopics, selectedProduct,
                   searchQuery, sidebar>>
    /\ UNCHANGED <<builderVars, pageVars, mainVars, fetchVars>>

NextFiltered == CallGetFilteredRepos

SpecFiltered == InitFiltered /\ [][NextFiltered]_vars

(* ----------------------------- fetch_org_repos -------------------------- *)

\* an element of a page of the API: the keys fork and archived hold true or
\* false or are absent
RepoData(name, fork, archived) == [name |-> name, fork |-> fork, archived |-> archived]

\* the pages a source can answer with
SourcePages ==
    { <<>>,
      <<RepoData("a", "false", "false")>>,
      <<RepoData("b", "true", "false"), RepoData("c", "absent", "absent")>>,
      <<RepoData("d", "false", "true"), RepoData("e", "true", "true")>>,
      <<RepoData("f", "true", "absent"), RepoData("g", "false", "false")>> }

\* a source: its first pages, and what it answers for every later page,
\* "empty" for an empty page, "full" for a page with one repository
Sources ==
    { [pages |-> ps, then |-> t] :
          ps \in UNION { [1..n -> SourcePages] : n \in 0..MaxPages },
          t \in {"empty", "full"} }

\* response.json() for the request of page p
PageOf(src, p) ==
    IF p <= Len(src.pages) THEN src.pages[p]
    ELSE IF src.then = "empty" THEN <<>>
    ELSE <<RepoData("z", "false", "false")>>

\* repo_data.get(key) is truthy
Truthy(flag) == flag = "true"

\* the two "continue" tests of the loop over a page
Skipped(repo_data, forks, archived) ==
    \/ Truthy(repo_data.fork) /\ ~forks
    \/ Truthy(repo_data.archived) /\ ~archived

\* Repository(...): fork and archived default to False
MakeRepository(repo_data) ==
    [name     |-> repo_data.name,
     is_fork  |-> IF repo_data.fork = "absent" THEN "false" ELSE repo_data.fork,
     archived |-> IF repo_data.archived = "absent" THEN "false" ELSE repo_data.archived]

\* for repo_data in data: ... repos.append(repo)
RECURSIVE AppendPage(_, _, _, _)
AppendPage(acc, data, forks, archived) ==
    IF data = <<>> THEN acc
    ELSE AppendPage(IF Skipped(Head(data), forks, archived) THEN acc
                    ELSE Append(acc, MakeRepository(Head(data))),
                    Tail(data), forks, archived)

\* faulty variant of NextPageNumber: page += 2
NextPageNumberSkips(p) == p + 2

\* page += 1
NextPageNumber(p) == p + 1

\* fetch_org_repos is called: repos = [], page = 1
InitFetch ==
    /\ fetch_pc = "loop"
    /\ page = 1
    /\ fetch_repos = <<>>
    /\ include_forks \in BOOLEAN
    /\ include_archived \in BOOLEAN
    /\ source \in Sources
    /\ requested = <<>>
    /\ repositories = <<>>
    /\ pc = "idle"
    /\ i = 1
    /\ topics = <<>>
    /\ languages = <<>>
    /\ topic_connections = <<>>
    /\ first = NoOutcome
    /\ second = NoOutcome
    /\ subject = NoPageRepo
    /\ product = "unset"
    /\ difficulty = "unset"
    /\ FilterIdle
    /\ MainIdle

\* one iteration of "while True" whose request succeeds: an empty page ends
\* the loop and the call returns repos, another page is filtered and added
FetchPage ==
    /\ fetch_pc = "loop"
    /\ page <= MaxPages + 2
    /\ requested' = Append(requested, page)
    /\ LET data == PageOf(source, page)
       IN  IF data = <<>>
           THEN /\ fetch_pc' = "returned"
                /\ UNCHANGED <<page, fetch_repos>>
           ELSE /\ fetch_repos' = AppendPage(fetch_repos, data, include_forks,
                                             include_archived)
                /\ page' = NextPageNumber(page)
                /\ UNCHANGED fetch_pc
    /\ UNCHANGED <<include_forks, include_archived, source>>
    /\ UNCHANGED <<builderVars, pageVars, filterVars, mainVars>>

\* one iteration whose request fails: response.raise_for_status() raises
FetchFails ==
    /\ fetch_pc = "loop"
    /\ page <= MaxPages + 2
    /\ requested' = Append(requested, page)
    /\ fetch_pc' = "raised"
    /\ UNCHANGED <<page, fetch_repos, include_forks, include_archived, source>>
    /\ UNCHANGED <<builderVars, pageVars, filterVars, mainVars>>

NextFetch == FetchPage \/ FetchFails

\* the loop goes on as long as it can
SpecFetch == InitFetch /\ [][NextFetch]_vars /\ WF_vars(NextFetch)

(* ======================================================================= *)
(*                               Properties                                *)
(* ======================================================================= *)

\* the outcomes of the calls made so far
Outcomes == {first, second}

Returned(h) == h.status = "returned"

\* the repository at index j is a member of the group keyed k of the dict d
MemberOf(d, k, j) ==
    \E e \in 1..Len(d) :
        d[e].name = k /\ \E m \in 1..Len(d[e].repositories) : d[e].repositories[m] = j

\* the topic list of a record: empty when the key is absent
TopicList(r) == IF "topics" \in r.keys THEN r.topics ELSE <<>>

RECURSIVE SumOfCounts(_)
SumOfCounts(d) == IF d = <<>> THEN 0 ELSE Head(d).count + SumOfCounts(Tail(d))

RECURSIVE SumOfTopicLengths(_)
SumOfTopicLengths(repos) ==
    IF repos = <<>> THEN 0
    ELSE Len(TopicList(Head(repos))) + SumOfTopicLengths(Tail(repos))

UncategorizedCount(d) ==
    IF \E e \in 1..Len(d) : d[e].name = "uncategorized"
    THEN d[CHOOSE e \in 1..Len(d) : d[e].name = "uncategorized"].count
    ELSE 0

\* C1: after build_hierarchy, a record is a member of the topic group
\* "uncategorized" if and only if its topic list is empty.
C1_UncategorizedIffNoTopics ==
    \A h \in Outcomes :
        Returned(h) =>
            \A j \in 1..Len(repositories) :
                MemberOf(h.topics, "uncategorized", j)
                    <=> TopicList(repositories[j]) = <<>>

\* C2: for a non-empty batch, the sum of the counts of all topic groups minus
\* the count of "uncategorized" equals the sum of the lengths of the records'
\* topic lists.
C2_CountsSumToTopicLengths ==
    \A h \in Outcomes :
        (Returned(h) /\ Len(repositories) > 0) =>
            SumOfCounts(h.topics) - UncategorizedCount(h.topics)
                = SumOfTopicLengths(repositories)

\* C3: in every returned hierarchy, stats.repos_with_multiple_topics equals
\* the number of entries of topic_connections.
C3_MultipleTopicsMatchesConnections ==
    \A h \in Outcomes :
        Returned(h) => h.stats.repos_with_multiple_topics = Len(h.topic_connections)

\* a hierarchy was returned for a batch with a multi-topic record and a
\* record that is not one
C3_Witness ==
    /\ Returned(first)
    /\ Len(first.topic_connections) > 0
    /\ Len(first.topic_connections) < Len(repositories)

\* the distinct topic labels the records list, "uncategorized" left out
RealTopicLabels(repos) ==
    UNION { { TopicList(repos[j])[k] : k \in 1..Len(TopicList(repos[j])) }
            : j \in 1..Len(repos) } \ {"uncategorized"}

\* C4: in every returned hierarchy, stats.total_topics is the number of
\* topic-group keys, less one when the key "uncategorized" is among them, and
\* so the number of distinct topic labels other than "uncategorized".
C4_TotalTopicsExcludesUncategorized ==
    \A h \in Outcomes :
        Returned(h) =>
            /\ h.stats.total_topics =
                  Len(h.topics) - (IF \E e \in 1..Len(h.topics) :
                                         h.topics[e].name = "uncategorized"
                                   THEN 1 ELSE 0)
            /\ h.stats.total_topics = Cardinality(RealTopicLabels(repositories))

\* a hierarchy was returned for a batch with a record without topics and
\* records with topics
C4_Witness ==
    /\ Returned(first)
    /\ \E j \in 1..Len(repositories) : TopicList(repositories[j]) = <<>>
    /\ \E e \in 1..Len(first.topics) : first.topics[e].name = "uncategorized"
    /\ first.stats.total_topics > 1

\* the sizes of the groups of a dict, in insertion order
TopicSizes(d) == [j \in 1..Len(d) |-> d[j].count]

LanguageSizes(d) == [j \in 1..Len(d) |-> Len(d[j].repositories)]

\* the group keyed d[e].name is listed in top
Listed(d, e, top) == \E q \in 1..Len(top) : top[q].name = d[e].name

\* of two groups of equal size, the one inserted later is listed in top only
\* behind the one inserted earlier
TiesKeepInsertionOrder(d, size, top) ==
    \A a \in 1..Len(d) : \A b \in (a + 1)..Len(d) :
        size[a] = size[b] =>
            \A q \in 1..Len(top) :
                top[q].name = d[b].name =>
                    \E o \in 1..(q - 1) : top[o].name = d[a].name

\* C5: ranking is stable: of two topic groups (language groups) with equal
\* member counts, the one whose key was inserted first comes earlier in
\* top_topics (top_languages).
C5_RankingStable ==
    \A h \in Outcomes :
        Returned(h) =>
            /\ TiesKeepInsertionOrder(h.topics, TopicSizes(h.topics),
                                      h.stats.top_topics)
            /\ TiesKeepInsertionOrder(h.languages, LanguageSizes(h.languages),
                                      h.stats.top_languages)

\* a hierarchy was returned in which two tied topic groups are both listed,
\* a tied group is cut off, a group inserted later outranks an earlier one,
\* and two tied language groups are both listed
C5_Witness ==
    /\ Returned(first)
    /\ Len(first.topics) > TopN
    /\ \E a, b \in 1..Len(first.topics) :
          /\ a < b
          /\ first.topics[a].count = first.topics[b].count
          /\ Listed(first.topics, b, first.stats.top_topics)
    /\ \E a, b \in 1..Len(first.topics) :
          /\ a < b
          /\ first.topics[a].count = first.topics[b].count
          /\ Listed(first.topics, a, first.stats.top_topics)
          /\ ~Listed(first.topics, b, first.stats.top_topics)
    /\ \E a, b \in 1..Len(first.topics) :
          a < b /\ first.topics[a].count < first.topics[b].count
    /\ Len(first.languages) > TopN
    /\ \E a, b \in 1..Len(first.languages) :
          /\ a < b
          /\ Len(first.languages[a].repositories) = Len(first.languages[b].repositories)
          /\ Listed(first.languages, b, first.stats.top_languages)

\* top lists the groups of d with their sizes, at most TopN of them, largest
\* first, and leaves out no group larger than one it lists
TopListOf(d, size, top) ==
    /\ Len(top) <= TopN
    /\ Len(top) = (IF Len(d) < TopN THEN Len(d) ELSE TopN)
    /\ \A q \in 1..Len(top) :
          \E e \in 1..Len(d) : d[e].name = top[q].name /\ size[e] = top[q].count
    /\ \A q \in 1..(Len(top) - 1) : top[q].count >= top[q + 1].count
    /\ \A e \in 1..Len(d) :
          ~Listed(d, e, top) => \A q \in 1..Len(top) : size[e] <= top[q].count

\* C6: top_topics and top_languages have at most 10 entries, their counts do
\* not increase, and no group left out is larger than a group listed.
C6_TopListsBounded ==
    \A h \in Outcomes :
        Returned(h) =>
            /\ TopListOf(h.topics, TopicSizes(h.topics), h.stats.top_topics)
            /\ TopListOf(h.languages, LanguageSizes(h.languages),
                         h.stats.top_languages)

\* a hierarchy was returned with more than TopN topic groups and more than
\* TopN language groups, of different sizes
C6_Witness ==
    /\ Returned(first)
    /\ Len(first.topics) > TopN
    /\ Len(first.languages) > TopN
    /\ Len(first.stats.top_topics) = TopN
    /\ first.stats.top_languages[1].count > first.stats.top_languages[TopN].count

\* C7: if a record of the batch lacks the key name or url, build_hierarchy
\* raises and returns no hierarchy, whatever the number of its topics.
C7_MissingNameOrUrlFails ==
    (\E j \in 1..Len(repositories) :
        "name" \notin repositories[j].keys \/ "url" \notin repositories[j].keys)
    => \A h \in Outcomes : ~Returned(h)

\* what makes a call raise: a None where a list or an integer is needed, or
\* a record with more than one topic whose name or url is absent
RaisesOn(r) ==
    \/ r.nulls \cap {"topics", "stars", "forks"} # {}
    \/ Len(TopicList(r)) > 1 /\ {"name", "url"} \cap r.keys # {"name", "url"}

StarsOrZero(r) == IF "stars" \in r.keys THEN r.stars ELSE 0

ForksOrZero(r) == IF "forks" \in r.keys THEN r.forks ELSE 0

RECURSIVE SumOver(_, _)
SumOver(f, n) == IF n = 0 THEN 0 ELSE f[n] + SumOver(f, n - 1)

\* C8: an absent description, language, topics, stars or forks key never
\* makes build_hierarchy raise; absent topics count as no topics (the record
\* goes to "uncategorized"), an absent language as "Unknown", absent stars
\* and forks as zero, and every record is grouped.
C8_AbsentOptionalKeysDefault ==
    \A h \in Outcomes :
        /\ h.status = "raised" =>
              \E j \in 1..Len(repositories) : RaisesOn(repositories[j])
        /\ Returned(h) =>
              /\ \A j \in 1..Len(repositories) :
                    /\ "topics" \notin repositories[j].keys
                          => MemberOf(h.topics, "uncategorized", j)
                    /\ "language" \notin repositories[j].keys
                          => MemberOf(h.languages, "Unknown", j)
                    /\ \E e \in 1..Len(h.languages) :
                          MemberOf(h.languages, h.languages[e].name, j)
              /\ h.stats.total_repositories = Len(repositories)
              /\ h.stats.total_stars =
                    SumOver([j \in 1..Len(repositories) |->
                                StarsOrZero(repositories[j])], Len(repositories))
              /\ h.stats.total_forks =
                    SumOver([j \in 1..Len(repositories) |->
                                ForksOrZero(repositories[j])], Len(repositories))

\* a hierarchy was returned for a batch of a record without any of the
\* optional keys and a record with stars
C8_Witness ==
    /\ Returned(first)
    /\ first.stats.total_stars > 0
    /\ \E j \in 1..Len(repositories) :
          repositories[j].keys \cap
              {"description", "topics", "language", "stars", "forks"} = {}

\* C9: a second call of build_hierarchy on the same builder ends as the
\* first did, with an equal hierarchy: nothing carries over.
C9_SecondCallEqualsFirst ==
    second.status # "none" => second = first

\* two calls returned, with topic groups, language groups and connections
C9_Witness ==
    /\ Returned(first)
    /\ Returned(second)
    /\ Len(second.topics) > 1
    /\ Len(second.topic_connections) > 0

\* the entries of the records with more than one topic, in input order
RECURSIVE ExpectedConnections(_)
ExpectedConnections(repos) ==
    IF repos = <<>> THEN <<>>
    ELSE LET r == repos[Len(repos)]
             rest == ExpectedConnections(SubSeq(repos, 1, Len(repos) - 1))
         IN  IF Len(TopicList(r)) > 1
             THEN rest \o <<[repository |-> r.name, topics |-> TopicList(r),
                             url |-> r.url]>>
             ELSE rest

\* C10: topic_connections has one entry for each record with more than one
\* topic and none for the others, in input order, each with the record's
\* name, full topic list and url.
C10_ConnectionsFilterInOrder ==
    \A h \in Outcomes :
        Returned(h) => h.topic_connections = ExpectedConnections(repositories)

\* a hierarchy was returned with the entries of two records
C10_Witness ==
    /\ Returned(first)
    /\ Len(first.topic_connections) = 2
    /\ first.topic_connections[1].repository = repositories[1].name
    /\ first.topic_connections[1].topics # first.topic_connections[2].topics

\* C11: in every topic group count equals the number of entries of the
\* member list, in every returned hierarchy and after each record processed
\* by the grouping pass.
C11_CountIsMemberCount ==
    /\ \A e \in 1..Len(topics) : topics[e].count = Len(topics[e].repositories)
    /\ \A h \in Outcomes :
          \A e \in 1..Len(h.topics) :
              h.topics[e].count = Len(h.topics[e].repositories)

\* the grouping pass is between two records and a group has two records
C11_Witness ==
    /\ pc = "loop"
    /\ i > 1
    /\ i <= Len(repositories)
    /\ \E e \in 1..Len(topics) :
          /\ topics[e].count = 2
          /\ topics[e].repositories[1] # topics[e].repositories[2]

\* the language of a record, when it has one: present, not None, not ""
HasLanguage(r) ==
    "language" \in r.keys /\ "language" \notin r.nulls /\ r.language # ""

ExpectedLanguageKey(r) == IF HasLanguage(r) THEN r.language ELSE "Unknown"

\* the places of the record at index j in the groups of the dict d
PlacesOf(d, j) ==
    { pl \in UNION { {<<e, m>> : m \in 1..Len(d[e].repositories)} : e \in 1..Len(d) } :
         d[pl[1]].repositories[pl[2]] = j }

\* C12: every record is in exactly one language group: the one keyed by its
\* language when it has one, and "Unknown" otherwise; no other key exists.
C12_OneLanguageGroupPerRecord ==
    \A h \in Outcomes :
        Returned(h) =>
            /\ \A j \in 1..Len(repositories) :
                  /\ Cardinality(PlacesOf(h.languages, j)) = 1
                  /\ \A pl \in PlacesOf(h.languages, j) :
                        h.languages[pl[1]].name = ExpectedLanguageKey(repositories[j])
            /\ \A e \in 1..Len(h.languages) :
                  \E j \in 1..Len(repositories) :
                      h.languages[e].name = ExpectedLanguageKey(repositories[j])

\* a hierarchy was returned for a record whose language is "" and a record
\* with a language
C12_Witness ==
    /\ Returned(first)
    /\ \E j \in 1..Len(repositories) :
          /\ "language" \in repositories[j].keys
          /\ "language" \notin repositories[j].nulls
          /\ repositories[j].language = ""
    /\ \E j \in 1..Len(repositories) : HasLanguage(repositories[j])
    /\ Len(first.languages) = 2

\* the distinct languages of the records, "Unknown" left out
RealLanguages(repos) ==
    { repos[j].language : j \in {k \in 1..Len(repos) : HasLanguage(repos[k])} }
        \ {"Unknown"}

\* C13: stats.total_languages is the number of language-group keys other
\* than "Unknown", which is the number of distinct languages of the records
\* (records without a language do not count); when every record has the
\* language "Go", languages is {"Go": all records in input order} and
\* total_languages is 1.
C13_TotalLanguagesExcludesUnknown ==
    \A h \in Outcomes :
        Returned(h) =>
            /\ h.stats.total_languages =
                  Cardinality({e \in 1..Len(h.languages) :
                                  h.languages[e].name # "Unknown"})
            /\ h.stats.total_languages = Cardinality(RealLanguages(repositories))
            /\ (/\ Len(repositories) > 0
                /\ \A j \in 1..Len(repositories) :
                      HasLanguage(repositories[j]) /\ repositories[j].language = "Go")
               => /\ h.languages =
                        <<[name |-> "Go",
                           repositories |-> [j \in 1..Len(repositories) |-> j]]>>
                  /\ h.stats.total_languages = 1

\* a hierarchy was returned with the "Unknown" group, for a batch with a
\* record without a language and a record with one
C13_Witness ==
    /\ Returned(first)
    /\ \E e \in 1..Len(first.languages) : first.languages[e].name = "Unknown"
    /\ \E j \in 1..Len(repositories) : ~HasLanguage(repositories[j])
    /\ first.stats.total_languages = 1

\* the batch of scenario A: topic lists [], ["x"], ["x", "y"]
IsScenarioA(repos) ==
    /\ Len(repos) = 3
    /\ TopicList(repos[1]) = <<>>
    /\ TopicList(repos[2]) = <<"x">>
    /\ TopicList(repos[3]) = <<"x", "y">>

CountOfTopic(d, k) ==
    IF \E e \in 1..Len(d) : d[e].name = k
    THEN d[CHOOSE e \in 1..Len(d) : d[e].name = k].count
    ELSE 0

\* C14: for the batch R1 topics [], R2 topics ["x"], R3 topics ["x", "y"]
\* build_hierarchy gives total_topics 2, repos_without_topics 1,
\* repos_with_multiple_topics 1, the single connection of R3, and the counts
\* x: 2, y: 1, uncategorized: 1.
C14_ScenarioA ==
    \A h \in Outcomes :
        (Returned(h) /\ IsScenarioA(repositories)) =>
            /\ h.stats.total_topics = 2
            /\ h.stats.repos_without_topics = 1
            /\ h.stats.repos_with_multiple_topics = 1
            /\ h.topic_connections =
                  <<[repository |-> repositories[3].name, topics |-> <<"x", "y">>,
                     url |-> repositories[3].url]>>
            /\ Len(h.topics) = 3
            /\ CountOfTopic(h.topics, "x") = 2
            /\ CountOfTopic(h.topics, "y") = 1
            /\ CountOfTopic(h.topics, "uncategorized") = 1

\* a hierarchy was returned for the batch of scenario A
C14_Witness ==
    /\ Returned(first)
    /\ IsScenarioA(repositories)
    /\ \A j \in 1..3 : {"name", "url", "topics"} \subseteq repositories[j].keys

\* C15: all_repositories of a returned hierarchy is the input list, and no
\* step of build_hierarchy changes the input list or a record of it.
C15_InputListUnchanged ==
    [][/\ repositories' = repositories
       /\ Returned(first') => first'.all_repositories = repositories
       /\ Returned(second') => second'.all_repositories = repositories]_vars

\* a hierarchy was returned for a batch of two different records
C15_Witness ==
    /\ Returned(first)
    /\ Len(first.all_repositories) = 2
    /\ first.all_repositories[1].topics # first.all_repositories[2].topics
    /\ first.all_repositories = repositories

\* C19: no record is counted twice within one topic group: a record occurs
\* at most once in the member list of a group.
C19_NoDoubleCountInGroup ==
    \A h \in Outcomes :
        Returned(h) =>
            \A e \in 1..Len(h.topics) :
                \A m, n \in 1..Len(h.topics[e].repositories) :
                    m # n => h.topics[e].repositories[m] # h.topics[e].repositories[n]

\* the keys in the order in which they are first met in a sequence of keys
RECURSIVE FirstSeen(_)
FirstSeen(ks) ==
    IF ks = <<>> THEN <<>>
    ELSE LET rest == FirstSeen(SubSeq(ks, 1, Len(ks) - 1))
             k == ks[Len(ks)]
         IN  IF \E q \in 1..Len(rest) : rest[q] = k THEN rest ELSE Append(rest, k)

\* the topic keys a record is filed under, in the order of the pass
TopicKeysOf(r) == IF TopicList(r) = <<>> THEN <<"uncategorized">> ELSE TopicList(r)

RECURSIVE TopicKeysMet(_)
TopicKeysMet(repos) ==
    IF repos = <<>> THEN <<>>
    ELSE TopicKeysMet(SubSeq(repos, 1, Len(repos) - 1)) \o TopicKeysOf(repos[Len(repos)])

LanguageKeysMet(repos) == [j \in 1..Len(repos) |-> ExpectedLanguageKey(repos[j])]

GroupKeys(d) == [e \in 1..Len(d) |-> d[e].name]

\* the members of every group of d are in input order
MembersInInputOrder(d) ==
    \A e \in 1..Len(d) :
        \A m, n \in 1..Len(d[e].repositories) :
            m < n => d[e].repositories[m] <= d[e].repositories[n]

\* C20: the members of every topic group and language group are in input
\* order, and the group keys iterate in the order in which the pass first
\* met them.
C20_GroupsInFirstSeenOrder ==
    \A h \in Outcomes :
        Returned(h) =>
            /\ MembersInInputOrder(h.topics)
            /\ MembersInInputOrder(h.languages)
            /\ GroupKeys(h.topics) = FirstSeen(TopicKeysMet(repositories))
            /\ GroupKeys(h.languages) = FirstSeen(LanguageKeysMet(repositories))

\* a hierarchy was returned with several topic and language groups, a topic
\* group and a language group of two records
C20_Witness ==
    /\ Returned(first)
    /\ Len(first.topics) > 1
    /\ Len(first.languages) > 1
    /\ \E e \in 1..Len(first.topics) :
          /\ Len(first.topics[e].repositories) = 2
          /\ first.topics[e].repositories[1] < first.topics[e].repositories[2]
    /\ \E e \in 1..Len(first.languages) : Len(first.languages[e].repositories) = 2

\* the keyword kw occurs in the text, as a substring
Occurs(kw, text) ==
    \E a \in 1..Len(text) :
        \A k \in 1..Len(kw) : a + k - 1 <= Len(text) /\ text[a + k - 1] = kw[k]

RECURSIVE SpaceJoined(_)
SpaceJoined(strs) ==
    IF strs = <<>> THEN <<>>
    ELSE IF Len(strs) = 1 THEN strs[1]
    ELSE SpaceJoined(SubSeq(strs, 1, Len(strs) - 1)) \o <<" ">> \o strs[Len(strs)]

\* the description and the topics of a record, empty when absent or null
DescriptionText(r) ==
    IF "description" \in r.keys \ r.nulls THEN r.description ELSE <<>>

TopicTexts(r) == IF "topics" \in r.keys \ r.nulls THEN r.topics ELSE <<>>

\* the lower-cased text name + ' ' + description + ' ' + space-joined topics
LoweredText(r) ==
    LET raw == r.name \o <<" ">> \o DescriptionText(r) \o <<" ">>
                  \o SpaceJoined(TopicTexts(r))
    IN  [k \in 1..Len(raw) |-> LowerChar(raw[k])]

LoweredName(r) == [k \in 1..Len(r.name) |-> LowerChar(r.name[k])]

\* a keyword of the list occurs in the text
AnyOccurs(keywords, text) == \E k \in 1..Len(keywords) : Occurs(keywords[k], text)

\* the label of the first entry of the list, in its order, that has a
\* keyword in the text; none when no entry has one
FirstMatching(entries, text, none) ==
    IF \E k \in 1..Len(entries) : AnyOccurs(entries[k].keywords, text)
    THEN LET k == CHOOSE k \in 1..Len(entries) :
                      /\ AnyOccurs(entries[k].keywords, text)
                      /\ \A o \in 1..(k - 1) : ~AnyOccurs(entries[o].keywords, text)
         IN  entries[k].label
    ELSE none

\* the product categories in the order langsmith, langgraph, langchain
ProductCategories ==
    << [label |-> "langsmith", keywords |-> LangsmithKeywords],
       [label |-> "langgraph", keywords |-> LanggraphKeywords],
       [label |-> "langchain", keywords |-> LangchainKeywords] >>

\* C16, as stated: classifyRepoByProduct returns, for every record, the first
\* of langsmith, langgraph, langchain that has a keyword occurring as a
\* substring of the lower-cased text, and no category when none has.
C16_FirstCategoryForEveryRecord ==
    product # "unset" =>
        product = FirstMatching(ProductCategories, LoweredText(subject), "null")

\* C16, amended: for every record whose lower-cased name is not '.github',
\* classifyRepoByProduct returns the first of langsmith, langgraph,
\* langchain that has a keyword occurring as a substring of the lower-cased
\* text, and no category when none has.
C16_FirstCategoryUnlessDotGithub ==
    (product # "unset" /\ LoweredName(subject) # DotGithub) =>
        product = FirstMatching(ProductCategories, LoweredText(subject), "null")

\* a record with keywords of all three categories, written with capitals,
\* was classified as langsmith
C16_Witness ==
    /\ product = "langsmith"
    /\ AnyOccurs(LanggraphKeywords, LoweredText(subject))
    /\ AnyOccurs(LangchainKeywords, LoweredText(subject))
    /\ subject.name # LoweredName(subject)

\* C17: a record named .github gets no product category, whatever its
\* description and topics contain.
C17_DotGithubHasNoCategory ==
    (product # "unset" /\ subject.name = DotGithub) => product = "null"

\* a record named .github whose text has a keyword of a category was
\* classified
C17_Witness ==
    /\ product = "null"
    /\ subject.name = DotGithub
    /\ FirstMatching(ProductCategories, LoweredText(subject), "null") = "langchain"

\* the difficulty tiers in the order beginner, intermediate, advanced, expert
DifficultyTiers ==
    << [label |-> "beginner", keywords |-> BeginnerKeywords],
       [label |-> "intermediate", keywords |-> IntermediateKeywords],
       [label |-> "advanced", keywords |-> AdvancedKeywords],
       [label |-> "expert", keywords |-> ExpertKeywords] >>

\* more than two topics: intermediate; otherwise beginner
TierWithoutKeyword(r) ==
    IF Len(TopicTexts(r)) > 2 THEN "intermediate" ELSE "beginner"

\* C18: classifyDifficulty returns exactly one of the four tiers: the first
\* of beginner, intermediate, advanced, expert with a keyword occurring as a
\* substring of the lower-cased text; when no tier has one, intermediate for
\* a record with more than two topics and beginner otherwise.
C18_DifficultyTier ==
    difficulty # "unset" =>
        /\ difficulty \in {"beginner", "intermediate", "advanced", "expert"}
        /\ difficulty = FirstMatching(DifficultyTiers, LoweredText(subject),
                                      TierWithoutKeyword(subject))

\* a record with three topics and no keyword of any tier was classified
C18_Witness ==
    /\ difficulty = "intermediate"
    /\ Len(TopicTexts(subject)) = 3
    /\ \A k \in 1..Len(DifficultyTiers) :
          ~AnyOccurs(DifficultyTiers[k].keywords, LoweredText(subject))

(* ------------------- totals of the statistics snapshot ------------------ *)

\* the stars and forks of the records from position a on, an absent key
\* counting as zero
RECURSIVE StarsFrom(_, _)
StarsFrom(repos, a) ==
    IF a > Len(repos) THEN 0 ELSE StarsOrZero(repos[a]) + StarsFrom(repos, a + 1)

RECURSIVE ForksFrom(_, _)
ForksFrom(repos, a) ==
    IF a > Len(repos) THEN 0 ELSE ForksOrZero(repos[a]) + ForksFrom(repos, a + 1)

\* C21: in every returned hierarchy total_stars and total_forks are the sums
\* of the stars and forks of all input records, a record without the key
\* adding zero, and total_repositories is the number of input records.
C21_TotalsAreExactSums ==
    \A h \in Outcomes :
        Returned(h) =>
            /\ h.stats.total_stars = StarsFrom(repositories, 1)
            /\ h.stats.total_forks = ForksFrom(repositories, 1)
            /\ h.stats.total_repositories = Len(repositories)
            /\ h.stats.total_repositories = Len(h.all_repositories)

\* a hierarchy was returned for two records, one without the stars and forks
\* keys and one with stars and more than one fork
C21_Witness ==
    /\ Returned(first)
    /\ Len(repositories) = 2
    /\ \E j \in 1..2 : {"stars", "forks"} \cap repositories[j].keys = {}
    /\ first.stats.total_stars > 0
    /\ first.stats.total_forks > 1


(* ------------------------ null optional values -------------------------- *)

\* the record as it would be with its null topics, stars and forks left out
WithoutNulls(r) == [r EXCEPT !.keys = r.keys \ (r.nulls \cap {"topics", "stars", "forks"})]

\* C22: a topics, stars or forks key whose value is null does not make
\* build_hierarchy raise: a call raises only if it would also raise with
\* those keys left out, and a returned hierarchy groups a record with null
\* topics under "uncategorized" and adds zero for null stars and forks.
C22_NullHandledLikeAbsent ==
    \A h \in Outcomes :
        /\ h.status = "raised" =>
              \E j \in 1..Len(repositories) :
                  /\ Len(TopicList(WithoutNulls(repositories[j]))) > 1
                  /\ {"name", "url"} \cap repositories[j].keys # {"name", "url"}
        /\ Returned(h) =>
              /\ \A j \in 1..Len(repositories) :
                    "topics" \in repositories[j].nulls
                        => MemberOf(h.topics, "uncategorized", j)
              /\ h.stats.total_stars =
                    StarsFrom([j \in 1..Len(repositories) |->
                                  WithoutNulls(repositories[j])], 1)
              /\ h.stats.total_forks =
                    ForksFrom([j \in 1..Len(repositories) |->
                                  WithoutNulls(repositories[j])], 1)


(* ------------------- the bucket of records without topics --------------- *)

\* some record lists the literal topic "uncategorized"
ListsUncategorized(repos) ==
    \E j \in 1..Len(repos) :
        \E k \in 1..Len(TopicList(repos[j])) : TopicList(repos[j])[k] = "uncategorized"

\* C24: when no record lists the literal topic "uncategorized", in every
\* returned hierarchy stats.repos_without_topics equals the count of the
\* "uncategorized" group (zero when there is no such group), and the group
\* exists if and only if some record has an empty topic list.
C24_WithoutTopicsIsUncategorizedCount ==
    \A h \in Outcomes :
        (Returned(h) /\ ~ListsUncategorized(repositories)) =>
            /\ h.stats.repos_without_topics = UncategorizedCount(h.topics)
            /\ HasEntry(h.topics, "uncategorized")
                  <=> \E j \in 1..Len(repositories) : TopicList(repositories[j]) = <<>>

\* a hierarchy was returned for a batch without the literal topic in which
\* two records have no topics, one with an empty list and one without the key
C24_Witness ==
    /\ Returned(first)
    /\ ~ListsUncategorized(repositories)
    /\ first.stats.repos_without_topics = 2
    /\ UncategorizedCount(first.topics) = 2
    /\ \E j \in 1..Len(repositories) : "topics" \notin repositories[j].keys
    /\ \E j \in 1..Len(repositories) : "topics" \in repositories[j].keys


(* ------------------- the language groups as a partition ----------------- *)

RECURSIVE SumOfGroupSizes(_)
SumOfGroupSizes(d) ==
    IF d = <<>> THEN 0 ELSE Len(Head(d).repositories) + SumOfGroupSizes(Tail(d))

\* C25: in every returned hierarchy the sizes of all language groups,
\* "Unknown" included, add up to stats.total_repositories, and no language
\* group is empty.
C25_LanguageGroupsPartition ==
    \A h \in Outcomes :
        Returned(h) =>
            /\ SumOfGroupSizes(h.languages) = h.stats.total_repositories
            /\ \A e \in 1..Len(h.languages) : h.languages[e].repositories # <<>>

\* a hierarchy was returned with an "Unknown" group and another language
\* group, one of them with two records
C25_Witness ==
    /\ Returned(first)
    /\ HasEntry(first.languages, "Unknown")
    /\ Len(first.languages) = 2
    /\ first.stats.total_repositories = 3


(* ------------------------ the build pipeline ---------------------------- *)

\* build_hierarchy has returned a hierarchy for the whole batch
BuildCompleted == Returned(first) /\ pc = "idle" /\ i > Len(repositories)

\* C23: in a run of the build script hierarchy.json is written only after
\* build_hierarchy has returned for the whole batch, the site is generated
\* only after hierarchy.json has been written, and a run in which
\* build_hierarchy raises, or that is given --skip-fetch while repos.json
\* does not exist, writes no hierarchy.json and generates no site.
C23_PipelineAllOrNothing ==
    /\ hierarchy_json = "written" => BuildCompleted
    /\ site = "generated" => hierarchy_json = "written"
    /\ first.status = "raised" => hierarchy_json = "none" /\ site = "none"
    /\ (skip_fetch /\ ~repos_json) =>
          /\ main_pc \in {"step1", "exit"}
          /\ first.status = "none" /\ pc = "idle"
          /\ hierarchy_json = "none" /\ site = "none"
    /\ main_pc \in {"exit", "raised"} => hierarchy_json = "none" /\ site = "none"

\* a run has generated the site from the hierarchy of a batch of two records
C23_Witness ==
    /\ main_pc = "done"
    /\ site = "generated"
    /\ Len(repositories) = 2
    /\ first.stats.total_topics = 2


(* ------------------------ the page's filter state ----------------------- *)

\* C26: after any sequence of panel, sidebar, view-button and clear clicks
\* (and of search input), selectedProduct is non-null only when
\* selectedTopics is empty.
C26_ProductExcludesSelection ==
    selectedProduct # "null" => selectedTopics = <<>>

\* a product panel was clicked in the language view of a page with records:
\* the product filter is active and some record passes it
C26_Witness ==
    /\ selectedProduct = "langsmith"
    /\ currentView = "language"
    /\ shown.repos # <<>>

\* the values a sidebar item of the view can have
ItemsOfView(data, view) ==
    IF view = "language" THEN data.languages
    ELSE IF view = "difficulty" THEN { LevelTexts[l] : l \in DOMAIN LevelTexts }
    ELSE data.topics

\* C27: a click on a view button or on the clear button empties
\* selectedTopics, sets selectedProduct to null and leaves searchQuery as it
\* is, the clear button leaves currentView as it is too; so every selected
\* value is an item of the current view.
C27_ViewAndClearReset ==
    /\ [][(ClickViewButton \/ ClickClear \/ currentView' # currentView) =>
             /\ selectedTopics' = <<>>
             /\ selectedProduct' = "null"
             /\ searchQuery' = searchQuery
             /\ ClickClear => currentView' = currentView]_vars
    /\ [](\A k \in 1..Len(selectedTopics) :
             selectedTopics[k] \in ItemsOfView(hierarchyData, currentView))

\* the difficulty view is shown with nothing selected while a search query
\* typed before is still in force
C27_Witness ==
    /\ currentView = "difficulty"
    /\ selectedTopics = <<>>
    /\ selectedProduct = "null"
    /\ searchQuery = <<"e">>
    /\ shown.repos # <<>>

NoDuplicates(arr) == \A a, b \in 1..Len(arr) : arr[a] = arr[b] => a = b

Elements(arr) == { arr[k] : k \in 1..Len(arr) }

\* C28: selectedTopics never holds an item twice; toggleTopic appends an
\* item that is not selected and removes one that is, keeping the order of
\* the others; toggling an item twice gives the same items again, and the
\* same array when the item was not selected before.
C28_ToggleIsInvolution ==
    /\ NoDuplicates(selectedTopics)
    /\ \A t \in ItemsOfView(hierarchyData, currentView) :
          LET once  == ToggleTopic(selectedTopics, t)
              twice == ToggleTopic(once, t)
          IN  /\ NoDuplicates(once) /\ NoDuplicates(twice)
              /\ Elements(twice) = Elements(selectedTopics)
              /\ IF t \in Elements(selectedTopics)
                 THEN /\ t \notin Elements(once)
                      /\ Elements(once) = Elements(selectedTopics) \ {t}
                      /\ Len(once) = Len(selectedTopics) - 1
                      /\ \A a, b \in 1..Len(once) :
                            a < b => IndexOfItem(selectedTopics, once[a])
                                        < IndexOfItem(selectedTopics, once[b])
                      /\ twice = Append(once, t)
                 ELSE /\ once = Append(selectedTopics, t)
                      /\ twice = selectedTopics

\* two topics are selected, the one selected first can be toggled off
C28_Witness ==
    /\ currentView = "topics"
    /\ Len(selectedTopics) = 2
    /\ \E item \in sidebar : ~item.disabled /\ item.topic = selectedTopics[1]


(* --------------------------- getFilteredRepos --------------------------- *)

\* the record carries the selected topic: it lists it, or the selected
\* value is "uncategorized" and the record has no topics
Carries(r, t) ==
    IF t = UncategorizedText THEN TopicTexts(r) = <<>>
    ELSE \E k \in 1..Len(TopicTexts(r)) : TopicTexts(r)[k] = t

\* the language the record is listed under
LanguageText(r) ==
    IF "language" \in r.keys \ r.nulls /\ r.language # <<>> THEN r.language
    ELSE UnknownText

\* what the selection asks of a record, by view
SelectionAllows(r) ==
    \/ selectedTopics = <<>>
    \/ /\ currentView = "topics"
       /\ \A t \in Elements(selectedTopics) : Carries(r, t)
    \/ /\ currentView = "language"
       /\ \E t \in Elements(selectedTopics) : t = LanguageText(r)
    \/ /\ currentView = "difficulty"
       /\ \E t \in Elements(selectedTopics) : t = LevelTexts[ClassifyDifficulty(r)]

\* the records of the list, in order, are records of all_repositories at
\* increasing positions
InOrderOf(list, all) ==
    \E f \in [1..Len(list) -> 1..Len(all)] :
        /\ \A k \in 1..Len(list) : all[f[k]] = list[k]
        /\ \A a, b \in 1..Len(list) : a < b => f[a] < f[b]

\* C29: in any filter state getFilteredRepos returns no record named
\* .github, returns records in the order of all_repositories, returns only
\* records that carry every selected topic in the topics view and that match
\* at least one selected value in the language and difficulty views (all
\* such records when no product filter and no search query is set), and
\* returns nothing when "uncategorized" is selected together with a topic.
C29_FilteredRepos ==
    shown.rendered =>
        LET all == hierarchyData.all_repositories
        IN  /\ \A k \in 1..Len(shown.repos) :
                  /\ shown.repos[k].name # DotGithub
                  /\ SelectionAllows(shown.repos[k])
            /\ InOrderOf(shown.repos, all)
            /\ (selectedProduct = "null" /\ searchQuery = <<>>) =>
                  \A j \in 1..Len(all) :
                      (all[j].name # DotGithub /\ SelectionAllows(all[j]))
                          => all[j] \in Elements(shown.repos)
            /\ (/\ currentView = "topics"
                /\ UncategorizedText \in Elements(selectedTopics)
                /\ Elements(selectedTopics) \ {UncategorizedText} # {})
                  => shown.repos = <<>>

\* in the language view two languages are selected and records of both are
\* returned
C29_Witness ==
    /\ shown.rendered
    /\ currentView = "language"
    /\ Len(selectedTopics) = 2
    /\ \E a, b \in 1..Len(shown.repos) :
          LanguageText(shown.repos[a]) # LanguageText(shown.repos[b])


(* ----------------------------- fetch_org_repos -------------------------- *)

\* the elements of pages 1 to n of the source, in order
RECURSIVE ItemsUpTo(_, _)
ItemsUpTo(src, n) ==
    IF n = 0 THEN <<>> ELSE ItemsUpTo(src, n - 1) \o PageOf(src, n)

\* a repository the caller asked for: no fork unless include_forks, no
\* archived repository unless include_archived
Wanted(item) ==
    /\ item.fork = "true" => include_forks
    /\ item.archived = "true" => include_archived

\* the names of the wanted elements of a list, in order
RECURSIVE WantedNames(_)
WantedNames(items) ==
    IF items = <<>> THEN <<>>
    ELSE (IF Wanted(Head(items)) THEN <<Head(items).name>> ELSE <<>>)
             \o WantedNames(Tail(items))

\* pages 1, 2, 3, ... were requested in order, none after an empty page;
\* repos holds the wanted repositories of the pages read, in source order;
\* the call has returned only on an empty page
FetchedInOrder ==
    /\ \A k \in 1..Len(requested) : requested[k] = k
    /\ \A k \in 1..(Len(requested) - 1) : PageOf(source, k) # <<>>
    /\ fetch_pc = "loop" =>
          /\ page = Len(requested) + 1
          /\ \A k \in 1..Len(requested) : PageOf(source, k) # <<>>
    /\ fetch_pc = "returned" => PageOf(source, Len(requested)) = <<>>
    /\ fetch_pc \in {"loop", "returned"} =>
          [k \in 1..Len(fetch_repos) |-> fetch_repos[k].name]
              = WantedNames(ItemsUpTo(source, Len(requested)))
    /\ \A k \in 1..Len(fetch_repos) :
          /\ fetch_repos[k].is_fork = "true" => include_forks
          /\ fetch_repos[k].archived = "true" => include_archived

\* the source has an empty page
HasEmptyPage == \E p \in 1..(MaxPages + 1) : PageOf(source, p) = <<>>

\* C30: fetch_org_repos requests the pages 1, 2, 3, ... in order, each once,
\* stops at the first empty page and only there, returns the repositories in
\* source order without forks unless include_forks and without archived
\* repositories unless include_archived, and ends (returns or raises) when
\* the source has an empty page.
C30_FetchPagesInOrder ==
    /\ []FetchedInOrder
    /\ (fetch_pc = "loop" /\ HasEmptyPage) ~> (fetch_pc \in {"returned", "raised"})

\* the call returned at the third request, with forks, without archived
\* repositories, having left out an element of a page
C30_Witness ==
    /\ fetch_pc = "returned"
    /\ Len(requested) = 3
    /\ include_forks /\ ~include_archived
    /\ \E k \in 1..Len(fetch_repos) : fetch_repos[k].is_fork = "true"
    /\ Len(fetch_repos) < Len(ItemsUpTo(source, 2))

=============================================================================
